---- MODULE Spec2Model ----
(***************************************************************************)
(* generate_report of .ci/generate_test_report_lib.py as a state machine.  *)
(*                                                                         *)
(* A string is a sequence of chunks; a chunk is a literal of the source    *)
(* (ASCII, one byte per character) followed by caller-supplied text, kept  *)
(* as Unicode code points so that its UTF-8 length is computed, not        *)
(* assumed.  A report is the list of lines handed to "\n".join.            *)
(***************************************************************************)
EXTENDS Integers, Sequences, FiniteSets, TLC

VARIABLES title, return_code, junit_objects, size_limit, list_failures,
          top_list_failures, activations, pc, ret

vars == <<title, return_code, junit_objects, size_limit, list_failures,
          top_list_failures, activations, pc, ret>>

----------------------------------------------------------------------------
(* Bounds of the model *)

\* most suites in a collection
MaxSuites == 2
\* deepest chain of generate_report activations the interpreter allows
MaxDepth == 3
\* a byte budget between the degraded and the full reports of the inputs
TightLimit == 380

\* size_limit=1024 * 1024
DefaultSizeLimit == 1048576

----------------------------------------------------------------------------
(* Strings *)

Lit(s) == [lit |-> s, txt |-> <<>>]
Txt(t) == [lit |-> "", txt |-> t]

Backtick == <<96>>
Slash == <<47>>

\* bytes of one code point under str.encode("utf-8")
Utf8Bytes(cp) ==
    IF cp < 128 THEN 1 ELSE IF cp < 2048 THEN 2 ELSE IF cp < 65536 THEN 3 ELSE 4

RECURSIVE Utf8Len(_)
Utf8Len(t) == IF t = <<>> THEN 0 ELSE Utf8Bytes(Head(t)) + Utf8Len(Tail(t))

RECURSIVE LineLen(_)
LineLen(line) ==
    IF line = <<>> THEN 0
    ELSE Len(Head(line).lit) + Utf8Len(Head(line).txt) + LineLen(Tail(line))

\* len("\n".join(report).encode("utf-8"))
RECURSIVE EncodedLen(_)
EncodedLen(lines) ==
    IF lines = <<>> THEN 0
    ELSE IF Len(lines) = 1 THEN LineLen(lines[1])
    ELSE LineLen(Head(lines)) + 1 + EncodedLen(Tail(lines))

SEE_BUILD_FILE_STR == "Download the build's log file to see the details."

UNRELATED_FAILURES_STR ==
    << [lit |-> "If these failures are unrelated to your changes (for example tests are broken or flaky at HEAD), please open an issue at https://github.com/llvm/llvm-project/issues and add the ",
        txt |-> Backtick],
       [lit |-> "infrastructure", txt |-> Backtick],
       Lit(" label.") >>

Blank == <<>>

----------------------------------------------------------------------------
(* The parsed documents: junit_objects is a sequence of documents, a       *)
(* document a sequence of suites, a suite a record of its name, its three  *)
(* count attributes and its test records.  The count attributes are read   *)
(* from the document, not counted from the records.  A record's result is  *)
(* the list of its result elements, empty for a passed record and of one   *)
(* element otherwise.                                                      *)

PassedResult == <<>>
Skipped == <<[kind |-> "Skipped", text |-> <<>>]>>
Error(t) == <<[kind |-> "Error", text |-> t]>>
Failure(t) == <<[kind |-> "Failure", text |-> t]>>

TestCase(c, n, r) == [classname |-> c, name |-> n, result |-> r]

\* C/p passed, C/s skipped, C/e with error "boom", C/f failed with "x",
\* D/g failed with a text of 2 + 3 bytes
PassedCase == TestCase(<<67>>, <<112>>, PassedResult)
SkippedCase == TestCase(<<67>>, <<115>>, Skipped)
ErrorCase == TestCase(<<67>>, <<101>>, Error(<<98, 111, 111, 109>>))
FailedCaseF == TestCase(<<67>>, <<102>>, Failure(<<120>>))
FailedCaseG == TestCase(<<68>>, <<103>>, Failure(<<233, 8364>>))

SuiteNames == { <<65>>, <<66>> }

TestSuite(n, t, s, f, cs) ==
    [name |-> n, tests |-> t, skipped |-> s, failures |-> f, cases |-> cs]

IsKind(test, k) == test.result # <<>> /\ test.result[1].kind = k

\* the record lists of the suites: a record of each status alone, and an
\* error followed by two failures
CaseLists ==
    { <<PassedCase>>, <<SkippedCase>>, <<ErrorCase>>, <<FailedCaseG>>,
      <<ErrorCase, FailedCaseF, FailedCaseG>> }

HowMany(cases, k) == Len(SelectSeq(cases, LAMBDA test : IsKind(test, k)))

\* a suite whose attributes count its records, as a JUnit writer emits it
WrittenSuite(n, cases) ==
    TestSuite(n, Len(cases), HowMany(cases, "Skipped"), HowMany(cases, "Failure"),
              cases)

\* suites that hold records: written ones, and one whose attributes are
\* all zero around a failing record
TestSuites ==
    { WrittenSuite(n, cases) : n \in SuiteNames, cases \in CaseLists }
    \cup { TestSuite(<<65>>, 0, 0, 0, <<FailedCaseG>>) }

\* suites that hold no record: every combination of the count attributes,
\* consistent or not
CountSuites ==
    { TestSuite(<<65>>, t, s, f, <<>>) : t \in 0..2, s \in 0..1, f \in 0..1 }

RECURSIVE SeqsUpTo(_, _)
SeqsUpTo(S, n) ==
    IF n = 0 THEN { <<>> }
    ELSE LET shorter == SeqsUpTo(S, n - 1)
         IN shorter \cup { Append(q, x) : q \in shorter, x \in S }

\* no document, one document (of any number of suites), or two documents
\* that split the suites between them
Collections(S) ==
    LET flat == SeqsUpTo(S, MaxSuites)
    IN { <<>> } \cup { <<q>> : q \in flat }
       \cup UNION { { <<SubSeq(q, 1, k), SubSeq(q, k + 1, Len(q))>> :
                         k \in 1..(Len(q) - 1) } : q \in flat }

Titles == { <<84>> }
ReturnCodes == { 0, 1 }
SizeLimits == { 0, TightLimit, DefaultSizeLimit }

----------------------------------------------------------------------------
(* generate_report: the walk over the documents *)

\* test.is_passed of junitparser: the record has no result element
is_passed(test) == test.result = <<>>

\* the check without its isinstance test: any record with a result is listed
IsListedFailure_anyResult(test) ==
    /\ ~is_passed(test)
    /\ test.result # <<>>

\* not test.is_passed and test.result and isinstance(test.result[0], Failure)
IsListedFailure(test) ==
    /\ ~is_passed(test)
    /\ test.result # <<>>
    /\ test.result[1].kind = "Failure"

\* (test.classname + "/" + test.name, test.result[0].text)
FailureEntry(test) ==
    [name |-> test.classname \o Slash \o test.name, output |-> test.result[1].text]

\* the append without its 'is None' test: failures[key] = [] every time
DictAppend_resetList(d, key, e) ==
    IF \E i \in 1..Len(d) : d[i].key = key
    THEN [i \in 1..Len(d) |->
            IF d[i].key = key THEN [d[i] EXCEPT !.items = <<e>>] ELSE d[i]]
    ELSE Append(d, [key |-> key, items |-> <<e>>])

\* failures is an insertion-ordered dict: a sequence of (key, list) pairs.
\* if failures.get(key) is None: failures[key] = []; failures[key].append(e)
DictAppend(d, key, e) ==
    IF \E i \in 1..Len(d) : d[i].key = key
    THEN [i \in 1..Len(d) |->
            IF d[i].key = key THEN [d[i] EXCEPT !.items = Append(@, e)] ELSE d[i]]
    ELSE Append(d, [key |-> key, items |-> <<e>>])

RECURSIVE VisitTests(_, _, _)
VisitTests(d, suite_name, tests) ==
    IF tests = <<>> THEN d
    ELSE VisitTests(IF IsListedFailure(Head(tests))
                    THEN DictAppend(d, suite_name, FailureEntry(Head(tests)))
                    ELSE d,
                    suite_name, Tail(tests))

VisitSuite(acc, testsuite) ==
    [failures |-> VisitTests(acc.failures, testsuite.name, testsuite.cases),
     tests_run |-> acc.tests_run + testsuite.tests,
     tests_skipped |-> acc.tests_skipped + testsuite.skipped,
     tests_failed |-> acc.tests_failed + testsuite.failures]

RECURSIVE VisitResults(_, _)
VisitResults(acc, results) ==
    IF results = <<>> THEN acc
    ELSE VisitResults(VisitSuite(acc, Head(results)), Tail(results))

RECURSIVE VisitObjects(_, _)
VisitObjects(acc, objects) ==
    IF objects = <<>> THEN acc
    ELSE VisitObjects(VisitResults(acc, Head(objects)), Tail(objects))

Tally(objects) ==
    VisitObjects([failures |-> <<>>, tests_run |-> 0, tests_skipped |-> 0,
                  tests_failed |-> 0], objects)

----------------------------------------------------------------------------
(* generate_report: the lines of the report *)

ReportHead(t) == << <<Lit("# "), Txt(t)>>, Blank >>

\* the tests_run == 0 branch with the log pointer on both of its arms
NoTestsLines_alwaysPointer(rc) ==
    IF rc = 0
    THEN << <<Lit("The build succeeded and no tests ran. This is expected in some build configurations.")>>,
            Blank,
            <<Lit(SEE_BUILD_FILE_STR)>> >>
    ELSE << <<Lit("The build failed before running any tests.")>>,
            Blank,
            <<Lit(SEE_BUILD_FILE_STR)>>,
            Blank,
            UNRELATED_FAILURES_STR >>

NoTestsLines(rc) ==
    IF rc = 0
    THEN << <<Lit("The build succeeded and no tests ran. This is expected in some build configurations.")>> >>
    ELSE << <<Lit("The build failed before running any tests.")>>,
            Blank,
            <<Lit(SEE_BUILD_FILE_STR)>>,
            Blank,
            UNRELATED_FAILURES_STR >>

\* plural without its singular
plural_alwaysPlural(num_tests) == "tests"

plural(num_tests) == IF num_tests = 1 THEN "test" ELSE "tests"

Bullet(n, what) ==
    IF n # 0
    THEN << <<Lit("* " \o ToString(n) \o " " \o plural(n) \o " " \o what)>> >>
    ELSE <<>>

CountLines(run, skipped, failed) ==
    LET tests_passed == run - skipped - failed
    IN Bullet(tests_passed, "passed") \o Bullet(skipped, "skipped")
       \o Bullet(failed, "failed")

TooLargeLines ==
    << Blank,
       <<Lit("Failed tests and their output was too large to report. " \o SEE_BUILD_FILE_STR)>> >>

DetailLines(entry) ==
    << <<Lit("<details>")>>,
       <<Lit("<summary>"), Txt(entry.name), Lit("</summary>")>>,
       Blank,
       <<Txt(Backtick \o Backtick \o Backtick)>>,
       <<Txt(entry.output)>>,
       <<Txt(Backtick \o Backtick \o Backtick)>>,
       <<Lit("</details>")>> >>

RECURSIVE GroupLines(_)
GroupLines(items) ==
    IF items = <<>> THEN <<>> ELSE DetailLines(Head(items)) \o GroupLines(Tail(items))

RECURSIVE ListingLines(_)
ListingLines(d) ==
    IF d = <<>> THEN <<>>
    ELSE << Blank, <<Lit("### "), Txt(Head(d).key)>> >>
         \o GroupLines(Head(d).items) \o ListingLines(Tail(d))

\* the note without the log pointer after it
BuildFailedLines_noPointer ==
    << Blank,
       <<Lit("All tests passed but another part of the build **failed**.")>> >>

BuildFailedLines ==
    << Blank,
       <<Lit("All tests passed but another part of the build **failed**.")>>,
       Blank,
       <<Lit(SEE_BUILD_FILE_STR)>> >>

\* the chain with its first two tests in the other order: recorded failures
\* are listed whatever list_failures is
FailureLines_listingFirst(lf, d, rc) ==
    IF d # <<>>
    THEN << Blank, <<Lit("## Failed Tests")>>,
            <<Lit("(click on a test name to see its output)")>> >>
         \o ListingLines(d)
    ELSE IF ~lf THEN TooLargeLines
    ELSE IF rc # 0 THEN BuildFailedLines
    ELSE <<>>

\* the if / elif / elif of lines 87-124
FailureLines(lf, d, rc) ==
    IF ~lf THEN TooLargeLines
    ELSE IF d # <<>>
         THEN << Blank, <<Lit("## Failed Tests")>>,
                 <<Lit("(click on a test name to see its output)")>> >>
              \o ListingLines(d)
    ELSE IF rc # 0 THEN BuildFailedLines
    ELSE <<>>

\* what the name failures is bound to at line 126: the loop of line 100
\* rebinds it to the list of the last suite it listed
FailuresAtEnd(lf, d) ==
    IF lf /\ d # <<>> THEN d[Len(d)].items ELSE d

\* the test of line 126 without 'failures or'
DisclaimerLines_returnCodeOnly(lf, d, rc) ==
    IF rc # 0 THEN << Blank, UNRELATED_FAILURES_STR >> ELSE <<>>

DisclaimerLines(lf, d, rc) ==
    IF FailuresAtEnd(lf, d) # <<>> \/ rc # 0
    THEN << Blank, UNRELATED_FAILURES_STR >>
    ELSE <<>>

\* one activation up to its return of line 73 or to the join of line 129:
\* its tests_run, and its list report
Activation(t, rc, objects, lf) ==
    LET acc == Tally(objects)
    IN [tests_run |-> acc.tests_run,
        report |->
          IF acc.tests_run = 0
          THEN ReportHead(t) \o NoTestsLines(rc)
          ELSE ReportHead(t)
               \o CountLines(acc.tests_run, acc.tests_skipped, acc.tests_failed)
               \o FailureLines(lf, acc.failures, rc)
               \o DisclaimerLines(lf, acc.failures, rc)]

ReportLines(t, rc, objects, lf) == Activation(t, rc, objects, lf).report

failures == Tally(junit_objects).failures

\* the activation in progress
Current == Activation(title, return_code, junit_objects, list_failures)

\* len(report.encode("utf-8")) > size_limit
ExceedsLimit(lines) == EncodedLen(lines) > size_limit

----------------------------------------------------------------------------
(* The call: one action per way an activation of generate_report ends *)

Start(objects) ==
    /\ title \in Titles
    /\ return_code \in ReturnCodes
    /\ junit_objects \in objects
    /\ size_limit \in SizeLimits
    /\ list_failures \in BOOLEAN
    /\ top_list_failures = list_failures
    /\ activations = 1
    /\ pc = "running"
    /\ ret = <<>>

Init == Start(Collections(TestSuites))

InitCounts == Start(Collections(CountSuites))

\* line 73: the return of the tests_run == 0 branch, before any size check
ReturnNoTests ==
    /\ pc = "running"
    /\ LET a == Current
       IN /\ a.tests_run = 0
          /\ ret' = a.report
    /\ pc' = "returned"
    /\ UNCHANGED <<title, return_code, junit_objects, size_limit, list_failures,
                   top_list_failures, activations>>

\* line 139
ReturnReport ==
    /\ pc = "running"
    /\ LET a == Current
       IN /\ a.tests_run # 0
          /\ ~ExceedsLimit(a.report)
          /\ ret' = a.report
    /\ pc' = "returned"
    /\ UNCHANGED <<title, return_code, junit_objects, size_limit, list_failures,
                   top_list_failures, activations>>

\* the retry with list_failures passed on as it came
Regenerate_keepListing ==
    /\ pc = "running"
    /\ activations < MaxDepth
    /\ LET a == Current
       IN a.tests_run # 0 /\ ExceedsLimit(a.report)
    /\ activations' = activations + 1
    /\ UNCHANGED <<title, return_code, junit_objects, size_limit, list_failures,
                   top_list_failures, pc, ret>>

\* lines 130-137: a new activation with list_failures=False, whose result
\* this one returns unchanged
Regenerate ==
    /\ pc = "running"
    /\ activations < MaxDepth
    /\ LET a == Current
       IN a.tests_run # 0 /\ ExceedsLimit(a.report)
    /\ list_failures' = FALSE
    /\ activations' = activations + 1
    /\ UNCHANGED <<title, return_code, junit_objects, size_limit,
                   top_list_failures, pc, ret>>

\* the same call when the interpreter refuses one more activation
RecursionError ==
    /\ pc = "running"
    /\ activations = MaxDepth
    /\ LET a == Current
       IN a.tests_run # 0 /\ ExceedsLimit(a.report)
    /\ pc' = "RecursionError"
    /\ UNCHANGED <<title, return_code, junit_objects, size_limit, list_failures,
                   top_list_failures, activations, ret>>

Next == ReturnNoTests \/ ReturnReport \/ Regenerate \/ RecursionError

Spec == Init /\ [][Next]_vars

SpecCounts == InitCounts /\ [][Next]_vars

----------------------------------------------------------------------------
(* What the properties speak of, read off the input and off the returned   *)
(* report without the walk or the line builders above.                     *)

RECURSIVE Concat(_)
Concat(qq) == IF qq = <<>> THEN <<>> ELSE Head(qq) \o Concat(Tail(qq))

\* every suite of every document, in document order
SuitesInOrder == Concat(junit_objects)

RECURSIVE SumAttr(_, _)
SumAttr(q, a) == IF q = <<>> THEN 0 ELSE Head(q)[a] + SumAttr(Tail(q), a)

TotalRun == SumAttr(SuitesInOrder, "tests")
TotalSkipped == SumAttr(SuitesInOrder, "skipped")
TotalFailed == SumAttr(SuitesInOrder, "failures")
TotalPassed == TotalRun - TotalSkipped - TotalFailed

\* the status of a record: passed, skipped, error or failed
Status(test) ==
    IF test.result = <<>> THEN "passed"
    ELSE IF test.result[1].kind = "Skipped" THEN "skipped"
    ELSE IF test.result[1].kind = "Error" THEN "error"
    ELSE "failed"

IsFailed(test) == Status(test) = "failed"

Qualified(test) ==
    [name |-> test.classname \o <<47>> \o test.name, output |-> test.result[1].text]

\* the failing records of the suites named n, in the order met
RECURSIVE FailedOf(_, _)
FailedOf(q, n) ==
    IF q = <<>> THEN <<>>
    ELSE (IF Head(q).name = n THEN SelectSeq(Head(q).cases, IsFailed) ELSE <<>>)
         \o FailedOf(Tail(q), n)

\* the records of the suites named n that did not fail
RECURSIVE OthersOf(_, _)
OthersOf(q, n) ==
    IF q = <<>> THEN <<>>
    ELSE (IF Head(q).name = n
          THEN SelectSeq(Head(q).cases, LAMBDA t : ~IsFailed(t)) ELSE <<>>)
         \o OthersOf(Tail(q), n)

\* how many records of the suites q failed
RECURSIVE FailedCount(_)
FailedCount(q) ==
    IF q = <<>> THEN 0
    ELSE Len(SelectSeq(Head(q).cases, IsFailed)) + FailedCount(Tail(q))

AnyFailedRecord == \E n \in SuiteNames : FailedOf(SuitesInOrder, n) # <<>>

Occurrences(q, x) == Cardinality({ i \in DOMAIN q : q[i] = x })

\* the names of the suites that hold a failing record, each once, in the
\* order of their first such suite
RECURSIVE FirstSeen(_, _)
FirstSeen(q, seen) ==
    IF q = <<>> THEN <<>>
    ELSE IF Head(q).name \in seen \/ SelectSeq(Head(q).cases, IsFailed) = <<>>
         THEN FirstSeen(Tail(q), seen)
         ELSE <<Head(q).name>> \o FirstSeen(Tail(q), seen \cup { Head(q).name })

ExpectedGroups ==
    LET names == FirstSeen(SuitesInOrder, {})
    IN [i \in 1..Len(names) |->
          LET recs == FailedOf(SuitesInOrder, names[i])
          IN [key |-> names[i],
              items |-> [j \in 1..Len(recs) |-> Qualified(recs[j])]]]

TextLine(str) == << [lit |-> str, txt |-> <<>>] >>

Disclaimer ==
    << [lit |-> "If these failures are unrelated to your changes (for example tests are broken or flaky at HEAD), please open an issue at https://github.com/llvm/llvm-project/issues and add the ",
        txt |-> <<96>>],
       [lit |-> "infrastructure", txt |-> <<96>>],
       [lit |-> " label.", txt |-> <<>>] >>

LogPointer == TextLine("Download the build's log file to see the details.")
NoTestsSentence ==
    TextLine("The build succeeded and no tests ran. This is expected in some build configurations.")
AllPassedNote ==
    TextLine("All tests passed but another part of the build **failed**.")
TooLargeNote ==
    TextLine("Failed tests and their output was too large to report. Download the build's log file to see the details.")
FailedTestsHeading == TextLine("## Failed Tests")
TitleLine == << [lit |-> "# ", txt |-> <<>>], [lit |-> "", txt |-> title] >>

HasLine(lines, l) == \E i \in DOMAIN lines : lines[i] = l

LastLines(lines, n) == SubSeq(lines, Len(lines) - n + 1, Len(lines))

StartsWith(line, str) == line # <<>> /\ line[1].lit = str

Indices(lines) == [i \in 1..Len(lines) |-> i]

\* the bullet lines: what follows the title and its blank line, up to the
\* next blank line
BulletsOf(lines) ==
    LET stops == { i \in 3..Len(lines) : lines[i] = <<>> }
        end == IF stops = {} THEN Len(lines)
               ELSE (CHOOSE i \in stops : \A j \in stops : i <= j) - 1
    IN SubSeq(lines, 3, end)

BulletWord(n) == IF n = 1 THEN "test" ELSE "tests"

ExpectedBullet(n, what) ==
    IF n = 0 THEN <<>>
    ELSE << TextLine("* " \o ToString(n) \o " " \o BulletWord(n) \o " " \o what) >>

ExpectedBullets ==
    ExpectedBullet(TotalPassed, "passed") \o ExpectedBullet(TotalSkipped, "skipped")
    \o ExpectedBullet(TotalFailed, "failed")

\* the '### suite' subsections of a report and the detail blocks under
\* each, read back from its lines
SectionsOf(lines) ==
    LET heads == SelectSeq(Indices(lines), LAMBDA i : StartsWith(lines[i], "### "))
    IN [h \in 1..Len(heads) |->
          LET from == heads[h]
              to == IF h < Len(heads) THEN heads[h + 1] ELSE Len(lines) + 1
              sums == SelectSeq(Indices(lines),
                        LAMBDA i : i > from /\ i < to
                                   /\ StartsWith(lines[i], "<summary>"))
          IN [key |-> lines[from][2].txt,
              items |-> [j \in 1..Len(sums) |->
                           [name |-> lines[sums[j]][2].txt,
                            output |-> lines[sums[j] + 3][1].txt]]]]

\* the entries a failures structure d holds under the key n
ListedUnder(d, n) ==
    LET at == { i \in DOMAIN d : d[i].key = n }
    IN IF at = {} THEN <<>> ELSE d[CHOOSE i \in at : TRUE].items

\* the report of the call with list_failures=False
DegradedReport == ReportLines(title, return_code, junit_objects, FALSE)

\* the degraded report as a function of the title, the return code, the
\* three totals and whether any failure was recorded, and of nothing else
DegradedFrom(t, rc, run, skipped, failed, any) ==
    << << [lit |-> "# ", txt |-> <<>>], [lit |-> "", txt |-> t] >>, <<>> >>
    \o ExpectedBullet(run - skipped - failed, "passed")
    \o ExpectedBullet(skipped, "skipped")
    \o ExpectedBullet(failed, "failed")
    \o << <<>>, TooLargeNote >>
    \o (IF any \/ rc # 0 THEN << <<>>, Disclaimer >> ELSE <<>>)

Returned == pc = "returned"

----------------------------------------------------------------------------
(* Properties *)

\* C1: when the degraded report (list_failures=False) fits size_limit, a
\* call with list_failures=True returns a report of at most size_limit
\* bytes, after at most one regeneration, on every path.
C1_FitsAfterOneRegeneration ==
    LET within == /\ pc # "RecursionError"
                  /\ activations <= 2
                  /\ Returned => EncodedLen(ret) <= size_limit
    IN top_list_failures =>
          (within \/ EncodedLen(DegradedReport) > size_limit)

C1_Witness ==
    /\ Returned
    /\ top_list_failures
    /\ activations = 2
    /\ size_limit = TightLimit
    /\ EncodedLen(ReportLines(title, return_code, junit_objects, TRUE)) > size_limit
    /\ EncodedLen(ret) <= size_limit

\* C2: for any input a call ends after at most two activations of
\* generate_report: the original and one with list_failures=False.
C2_AtMostTwoActivations == activations <= 2 /\ pc # "RecursionError"

\* C3: with size_limit=0 and list_failures=True the call returns the report
\* of list_failures=False, reached through exactly one retry (stated for the
\* inputs whose first pass reaches the size check, those with tests run).
C3_ZeroLimitIsDegraded ==
    (size_limit = 0 /\ top_list_failures /\ TotalRun > 0) =>
        /\ activations <= 2
        /\ pc # "RecursionError"
        /\ Returned => (ret = DegradedReport /\ activations = 2)

\* C4: with no test run and return code 0 the report is the title, a blank
\* line and the 'no tests ran' sentence, whatever list_failures, size_limit
\* and the records of the suites are.
C4_NoTestsSuccessOnly ==
    (Returned /\ TotalRun = 0 /\ return_code = 0) =>
        ret = << TitleLine, <<>>, NoTestsSentence >>

C4_Witness ==
    /\ Returned
    /\ TotalRun = 0
    /\ return_code = 0
    /\ AnyFailedRecord
    /\ size_limit = 0
    /\ top_list_failures
    /\ ret = << TitleLine, <<>>, NoTestsSentence >>

\* C5: tests ran, none failed, the build failed and failures are listed:
\* the report ends with the 'all tests passed but the build failed' note,
\* the log pointer and the disclaimer, and has no 'Failed Tests' heading.
C5_BuildFailedNote ==
    (Returned /\ list_failures /\ TotalRun > 0 /\ ~AnyFailedRecord
       /\ return_code # 0) =>
        /\ LastLines(ret, 6) =
             << <<>>, AllPassedNote, <<>>, LogPointer, <<>>, Disclaimer >>
        /\ ~HasLine(ret, FailedTestsHeading)

C5_Witness ==
    /\ Returned
    /\ list_failures
    /\ TotalRun > 0
    /\ ~AnyFailedRecord
    /\ return_code # 0
    /\ HasLine(ret, AllPassedNote)
    /\ \E i \in DOMAIN SuitesInOrder : SuitesInOrder[i].cases # <<>>

\* C6: a record is in the failures structure only if it failed, and every
\* failed record is there exactly once, under its suite's name, as
\* (classname/name, failure text); a report that lists failures has one
\* detail block per failed record.
C6_OnlyFailedRecordsListed ==
    LET d == failures
        q == SuitesInOrder
    IN /\ \A i \in DOMAIN d : d[i].key \in SuiteNames
       /\ \A i, j \in DOMAIN d : d[i].key = d[j].key => i = j
       /\ \A n \in SuiteNames :
            LET failed == FailedOf(q, n)
                expected == [j \in DOMAIN failed |-> Qualified(failed[j])]
                others == OthersOf(q, n)
                listed == ListedUnder(d, n)
            IN /\ Len(listed) = Len(expected)
               /\ \A i \in DOMAIN expected :
                    Occurrences(listed, expected[i]) = Occurrences(expected, expected[i])
               /\ \A i \in DOMAIN others :
                    \A j \in DOMAIN listed :
                       listed[j].name # others[i].classname \o <<47>> \o others[i].name
       /\ (Returned /\ list_failures /\ TotalRun > 0) =>
            Occurrences(ret, TextLine("<details>")) =
              FailedCount(q)

C6_Witness ==
    /\ Returned
    /\ list_failures
    /\ TotalRun > 0
    /\ Occurrences(ret, TextLine("<details>")) = 1
    /\ \E i \in DOMAIN SuitesInOrder :
         \E j \in DOMAIN SuitesInOrder[i].cases :
            Status(SuitesInOrder[i].cases[j]) = "error"
    /\ \E i \in DOMAIN SuitesInOrder :
         \E j \in DOMAIN SuitesInOrder[i].cases :
            Status(SuitesInOrder[i].cases[j]) = "failed"

\* C7: when tests ran, the report has a bullet for each of the passed,
\* skipped and failed totals that is not zero and for no other, in that
\* order, showing the total, with 'test' for a total of 1 and 'tests'
\* otherwise.
C7_CountBullets ==
    (Returned /\ TotalRun > 0) => BulletsOf(ret) = ExpectedBullets

C7_Witness ==
    /\ Returned
    /\ TotalPassed = 2
    /\ TotalSkipped = 0
    /\ TotalFailed = 1
    /\ BulletsOf(ret) = << TextLine("* 2 tests passed"), TextLine("* 1 test failed") >>

C9_DisclaimerIff ==
    Returned =>
        ((ret[Len(ret)] = Disclaimer)
           <=> (return_code # 0 \/ (TotalRun > 0 /\ AnyFailedRecord)))

C9_Witness ==
    /\ Returned
    /\ list_failures
    /\ return_code = 0
    /\ HasLine(ret, FailedTestsHeading)
    /\ ret[Len(ret)] = Disclaimer

\* C10: a report made with list_failures=False after tests ran has the
\* 'too large to report' note, no 'Failed Tests' heading and no 'all tests
\* passed' note, and is determined by the title, the return code, the
\* three totals and whether any failure was recorded.
C10_DegradedRevealsOnlyTotals ==
    (Returned /\ ~list_failures /\ TotalRun > 0) =>
        /\ HasLine(ret, TooLargeNote)
        /\ ~HasLine(ret, FailedTestsHeading)
        /\ ~HasLine(ret, AllPassedNote)
        /\ ret = DegradedFrom(title, return_code, TotalRun, TotalSkipped,
                              TotalFailed, AnyFailedRecord)

C10_Witness ==
    /\ Returned
    /\ ~list_failures
    /\ top_list_failures
    /\ TotalRun > 0
    /\ AnyFailedRecord
    /\ return_code = 0
    /\ HasLine(ret, TooLargeNote)

====
